---------------------------- MODULE Spec2Model ----------------------------
(***************************************************************************)
(* Model of the Luigi dataset pipeline of src/luigi_dz1.py:                *)
(*   DownloadDataset -> ExtractMainArchive -> ProcessFiles -> TrimProbes   *)
(*   -> Cleanup, wrapped by FullPipeline,                                  *)
(* and of the bracket-section parser ProcessFiles._process_text_file.      *)
(*                                                                         *)
(* Text is modelled as sequences of tokens.  A token is either one of the  *)
(* characters the code looks at ("[", "]", " ", TAB, NL) or a word that    *)
(* holds none of them ("x", "Heading", ...), so that strip(),              *)
(* startswith('['), strip('[]') and the tab split act on tokens exactly as *)
(* they act on characters.  Words are non-numeric and pairwise distinct    *)
(* within a line, so pandas' dtype inference and duplicate-column renaming *)
(* do not come into play.                                                  *)
(***************************************************************************)
EXTENDS Integers, Sequences, FiniteSets, TLC

TAB == "\t"
NL == "\n"

(***************************************************************************)
(* Bounds of the model.                                                    *)
(***************************************************************************)
\* the longest text file the parser specification reads, in lines
MaxLines == 4
\* the most members the remote archive of the dataset holds
MaxMembers == 2
\* the most pipeline runs (luigi.run invocations) of one behaviour
MaxRuns == 3
\* the most columns and data rows of a generated Probes section
MaxColumns == 3
MaxRows == 2

---------------------------------------------------------------------------
(***************************************************************************)
(* The state: of the parser of one text file, and of the pipeline.         *)
(***************************************************************************)

VARIABLES
    text,       \* the raw lines of the text file read so far
    parser,     \* dfs, current_section, buffer of _process_text_file
    parser_pc,  \* "reading", "saved" (it returned) or "raised"
    written,    \* the files saved under tables_dir, by name
    header_at,  \* history: the index in text of the current section's header
    handed,     \* history: the buffers handed to read_csv, in order
    warnings    \* history: the sections the warning was logged for

parser_vars == <<text, parser, parser_pc, written, header_at, handed, warnings>>

VARIABLES
    archive,    \* the members of the dataset's archive on the remote server
    fs,         \* the workspace
    pc,         \* "idle", "running" (between tasks), or the stage whose body loops
    pending,    \* the tasks luigi scheduled in this run and has not run yet
    todo,       \* the paths the loop of the running body has still to visit
    runs,       \* the number of luigi.run() invocations so far
    outcome,    \* of the latest luigi.run(): "none", "running", "success", "failed"
    executed,   \* history: the stages whose body this run started, in order
    completed,  \* history: the stages whose body ever returned without exception
    body,       \* history: the latest body started and how it ended
    attempted,  \* history: the inputs the running loop has visited
    succeeded,  \* history: some luigi.run() ended with every task done
    direct,     \* history: ProcessFiles.run() called outside luigi
    deleted,    \* history: the markers deleted by hand between two runs
    dataset_id, \* the dataset_id parameter of the tasks of the running process
    peer        \* the state of a second luigi process on the same workspace

pipeline_vars ==
    <<archive, fs, pc, pending, todo, runs, outcome, executed, completed, body,
      attempted, succeeded, direct, deleted, dataset_id, peer>>

vars == <<parser_vars, pipeline_vars>>

---------------------------------------------------------------------------
(***************************************************************************)
(* Python string helpers used by the parser.                               *)
(***************************************************************************)

\* str.strip(): whitespace removed from both ends
Whitespace == {" ", TAB, NL}

RECURSIVE LStrip(_, _)
LStrip(s, chars) ==
    IF s # <<>> /\ Head(s) \in chars THEN LStrip(Tail(s), chars) ELSE s

RECURSIVE RStrip(_, _)
RStrip(s, chars) ==
    IF s # <<>> /\ s[Len(s)] \in chars
    THEN RStrip(SubSeq(s, 1, Len(s) - 1), chars)
    ELSE s

\* line.strip()
Strip(s) == RStrip(LStrip(s, Whitespace), Whitespace)

\* line.strip('[]'): every leading and trailing bracket character removed
StripBrackets(s) == RStrip(LStrip(s, {"[", "]"}), {"[", "]"})

\* line.startswith('[')
StartsWithBracket(s) == s # <<>> /\ Head(s) = "["

\* the pieces of s between the occurrences of sep
RECURSIVE SplitOn(_, _)
SplitOn(s, sep) ==
    IF \A i \in 1..Len(s) : s[i] # sep
    THEN <<s>>
    ELSE LET i == CHOOSE k \in 1..Len(s) :
                     s[k] = sep /\ \A j \in 1..(k - 1) : s[j] # sep
         IN  <<SubSeq(s, 1, i - 1)>> \o SplitOn(SubSeq(s, i + 1, Len(s)), sep)

\* the pieces of a sequence of token sequences joined by sep
RECURSIVE JoinWith(_, _)
JoinWith(parts, sep) ==
    IF parts = <<>> THEN <<>>
    ELSE IF Len(parts) = 1 THEN parts[1]
    ELSE parts[1] \o <<sep>> \o JoinWith(Tail(parts), sep)

Max(a, b) == IF a >= b THEN a ELSE b


---------------------------------------------------------------------------
(***************************************************************************)
(* pandas, as far as the code uses it.  A table (DataFrame) is             *)
(*   [columns |-> the column names, leading |-> the number of implicit     *)
(*    index columns, rows |-> the data rows, each of leading + Len(columns)*)
(*    fields].                                                             *)
(* A field is a token sequence; the empty field stands for NaN.            *)
(***************************************************************************)

\* the lines of a StringIO buffer: every line in it ends with NL
BufferLines(buffer) ==
    IF buffer = <<>> THEN <<>>
    ELSE LET parts == SplitOn(buffer, NL)
         IN  IF parts[Len(parts)] = <<>>
             THEN SubSeq(parts, 1, Len(parts) - 1)
             ELSE parts

IsBlank(line) == line = <<>>

\* the fields of one line, sep='\t'
Fields(line) == SplitOn(line, TAB)

\* a row with trailing fields missing is filled with NaN
Pad(row, width) == row \o [i \in 1..(width - Len(row)) |-> <<>>]

\* the column labels of a headerless table: 0, 1, 2, ...
ColumnIndexName(i) ==
    <<(<<"0", "1", "2", "3", "4", "5", "6", "7", "8", "9">>)[i + 1]>>

\* the records of a buffer: the fields of its lines, blank lines skipped
FieldsOfAll(lines) == [i \in 1..Len(lines) |-> Fields(lines[i])]
Records(buffer) ==
    FieldsOfAll(SelectSeq(BufferLines(buffer), LAMBDA l : ~IsBlank(l)))

NoTable == [columns |-> <<>>, leading |-> 0, rows |-> <<>>]

\* the width of the data: that of its first line, at least the header's
DataWidth(names, data) ==
    IF data = <<>> THEN Len(names) ELSE Max(Len(names), Len(data[1]))

\* the table of the data lines under the column names: a line after the
\* first with more fields than the width is ParserError; with fewer names
\* than the width the leading columns are the index
Tabulate(names, data, width) ==
    IF \E k \in 2..Len(data) : Len(data[k]) > width
    THEN [status |-> "ParserError", table |-> NoTable]
    ELSE [status |-> "ok",
          table |-> [columns |-> names,
                     leading |-> width - Len(names),
                     rows |-> [k \in 1..Len(data) |-> Pad(data[k], width)]]]

\* the column labels of a headerless table of the width
PositionalNames(width) == [i \in 1..width |-> ColumnIndexName(i - 1)]

ReadRecords(recs, header) ==
    IF recs = <<>>
    THEN [status |-> "EmptyDataError", table |-> NoTable]
    ELSE IF header = "infer"
    THEN Tabulate(recs[1], Tail(recs), DataWidth(recs[1], Tail(recs)))
    ELSE Tabulate(PositionalNames(Len(recs[1])), recs, Len(recs[1]))

\* pd.read_csv(buffer, sep='\t', header=header) with the C parser: blank
\* lines are skipped and no line at all is EmptyDataError; header="infer"
\* takes the first line as the column names, header=None numbers the columns
ReadCsv(buffer, header) == ReadRecords(Records(buffer), header)

\* df.to_csv(path, sep='\t', index=False): the header line, then one line per
\* row without the index columns
ToCsv(df) ==
    <<JoinWith(df.columns, TAB)>> \o
    [k \in 1..Len(df.rows) |->
        JoinWith(SubSeq(df.rows[k], df.leading + 1, Len(df.rows[k])), TAB)]

---------------------------------------------------------------------------
(***************************************************************************)
(* ProcessFiles._finalize_section and ProcessFiles._process_text_file      *)
(***************************************************************************)

\* current_section is None or a string
NoSection == [isNone |-> TRUE, name |-> <<>>]
Section(name) == [isNone |-> FALSE, name |-> name]
\* Python truthiness of current_section: neither None nor ''
Truthy(section) == ~section.isNone /\ section.name # <<>>

\* dfs.setdefault(section, table): a key that is there keeps its value
DictSet_KeepFirst(dfs, key, value) ==
    [k \in DOMAIN dfs \cup {key} |-> IF k \in DOMAIN dfs THEN dfs[k] ELSE value]

\* dfs[section] = table
DictSet(dfs, key, value) ==
    [k \in DOMAIN dfs \cup {key} |-> IF k = key THEN value ELSE dfs[k]]

\* what _finalize_section does with the result r of read_csv: the table is
\* stored, or EmptyDataError is caught and logged, or the exception leaves
Finalized(dfs, section, r) ==
    CASE r.status = "ok" ->
           [dfs |-> DictSet(dfs, section.name, r.table),
            raised |-> "none", warned |-> FALSE, parsed |-> TRUE]
      [] r.status = "EmptyDataError" ->
           [dfs |-> dfs, raised |-> "none", warned |-> TRUE, parsed |-> TRUE]
      [] OTHER ->
           [dfs |-> dfs, raised |-> r.status, warned |-> FALSE, parsed |-> TRUE]

\* the same with the "except pd.errors.EmptyDataError" clause lost
Finalized_Uncaught(dfs, section, r) ==
    IF r.status = "ok"
    THEN [dfs |-> DictSet(dfs, section.name, r.table),
          raised |-> "none", warned |-> FALSE, parsed |-> TRUE]
    ELSE [dfs |-> dfs, raised |-> r.status, warned |-> FALSE, parsed |-> TRUE]

\* _finalize_section with the "except pd.errors.EmptyDataError" clause lost
FinalizeSection_Uncaught(dfs, section, buffer) ==
    IF ~Truthy(section) \/ Len(buffer) = 0
    THEN [dfs |-> dfs, raised |-> "none", warned |-> FALSE, parsed |-> FALSE]
    ELSE Finalized_Uncaught(dfs, section,
             ReadCsv(buffer, IF section.name = <<"Heading">>
                             THEN "None" ELSE "infer"))

\* _finalize_section with header="infer" for every section
FinalizeSection_AlwaysInfer(dfs, section, buffer) ==
    IF ~Truthy(section) \/ Len(buffer) = 0
    THEN [dfs |-> dfs, raised |-> "none", warned |-> FALSE, parsed |-> FALSE]
    ELSE Finalized(dfs, section, ReadCsv(buffer, "infer"))

\* _finalize_section(dfs, section, buffer): the new dfs, the exception that
\* leaves it ("none": it returns), whether the warning was logged and whether
\* read_csv was called
FinalizeSection(dfs, section, buffer) ==
    IF ~Truthy(section) \/ Len(buffer) = 0
    THEN [dfs |-> dfs, raised |-> "none", warned |-> FALSE, parsed |-> FALSE]
    ELSE Finalized(dfs, section,
             ReadCsv(buffer, IF section.name = <<"Heading">>
                             THEN "None" ELSE "infer"))

\* the state of _process_text_file before its first line
ParserStart ==
    [dfs |-> <<>>, current_section |-> NoSection, buffer |-> <<>>,
     raised |-> "none"]

\* a section header was read and the section before it finalized to f: the
\* new section starts with an empty buffer, unless the exception leaves
NewSection(ps, line, f) ==
    IF f.raised # "none"
    THEN [ps EXCEPT !.raised = f.raised]
    ELSE [dfs |-> f.dfs,
          current_section |-> Section(StripBrackets(line)),
          buffer |-> <<>>,
          raised |-> "none"]

\* the same with "buffer = StringIO()" lost
NewSection_KeepBuffer(ps, line, f) ==
    IF f.raised # "none"
    THEN [ps EXCEPT !.raised = f.raised]
    ELSE [dfs |-> f.dfs,
          current_section |-> Section(StripBrackets(line)),
          buffer |-> ps.buffer,
          raised |-> "none"]

\* the body of the loop on the stripped line
ParseStripped_KeepBuffer(ps, line) ==
    IF StartsWithBracket(line)
    THEN NewSection_KeepBuffer(ps, line,
             FinalizeSection(ps.dfs, ps.current_section, ps.buffer))
    ELSE IF Truthy(ps.current_section)
         THEN [ps EXCEPT !.buffer = ps.buffer \o line \o <<NL>>]
         ELSE ps

ParseStripped(ps, line) ==
    IF StartsWithBracket(line)
    THEN NewSection(ps, line,
             FinalizeSection(ps.dfs, ps.current_section, ps.buffer))
    ELSE IF Truthy(ps.current_section)
         THEN [ps EXCEPT !.buffer = ps.buffer \o line \o <<NL>>]
         ELSE ps

\* one iteration with "buffer = StringIO()" lost at a section header
ParseLine_KeepBuffer(ps, raw) == ParseStripped_KeepBuffer(ps, Strip(raw))

\* one iteration of "for line in f" on the raw line
ParseLine(ps, raw) == ParseStripped(ps, Strip(raw))

\* the final section was finalized to f
Ended(ps, f) == [ps EXCEPT !.dfs = f.dfs, !.raised = f.raised]

\* the end of the loop: "Process final section"
ParseEnd(ps) ==
    Ended(ps, FinalizeSection(ps.dfs, ps.current_section, ps.buffer))

\* the loop over a whole file, up to the exception that ends it
RECURSIVE ParseLines(_, _)
ParseRest(next, rest) ==
    IF next.raised # "none" THEN next ELSE ParseLines(next, rest)

ParseLines(ps, lines) ==
    IF lines = <<>> THEN ParseEnd(ps)
    ELSE ParseRest(ParseLine(ps, Head(lines)), Tail(lines))

\* the name of the file a section is saved to: f"{section}.tsv"
TsvName(section) == section \o <<".tsv">>

\* "Save tables": the files written under tables_dir, by name
SavedTables(dfs) ==
    [name \in {TsvName(s) : s \in DOMAIN dfs} |->
        ToCsv(dfs[CHOOSE s \in DOMAIN dfs : TsvName(s) = name])]

\* what _process_text_file leaves when its loop ended in ps
Saved(ps) ==
    [raised |-> ps.raised,
     files |-> IF ps.raised = "none" THEN SavedTables(ps.dfs) ELSE <<>>]

\* _process_text_file on a whole file: the exception it raises ("none": it
\* returns) and the files it writes
ProcessTextFile(lines) == Saved(ParseLines(ParserStart, lines))

---------------------------------------------------------------------------
(***************************************************************************)
(* The workspace: the files and directories below the working directory.   *)
(* A path is a sequence of names, a name a sequence of tokens whose        *)
(* suffixes (".gz", ".txt", ".tsv", ".tar") are tokens of their own, so    *)
(* that Path.stem and the glob patterns are computed on the name.          *)
(* fs maps every existing path to [kind |-> "dir" or "file", data |-> the  *)
(* lines of a text file].                                                  *)
(***************************************************************************)

DirNode == [kind |-> "dir", data |-> <<>>]
FileNode(data) == [kind |-> "file", data |-> data]

Exists(f, p) == p \in DOMAIN f
IsDir(f, p) == p \in DOMAIN f /\ f[p].kind = "dir"
IsFile(f, p) == p \in DOMAIN f /\ f[p].kind = "file"

Parent(p) == SubSeq(p, 1, Len(p) - 1)
Name(p) == p[Len(p)]
Ancestors(p) == {SubSeq(p, 1, k) : k \in 1..(Len(p) - 1)}
IsUnder(q, p) == Len(q) > Len(p) /\ SubSeq(q, 1, Len(p)) = p
Descendants(f, p) == {q \in DOMAIN f : IsUnder(q, p)}
Children(f, p) == {q \in DOMAIN f : IsUnder(q, p) /\ Len(q) = Len(p) + 1}

Put(f, p, node) == [q \in DOMAIN f \cup {p} |-> IF q = p THEN node ELSE f[q]]
Without(f, gone) == [q \in DOMAIN f \ gone |-> f[q]]

\* the outcome of a filesystem call: the exception it raises ("none": it
\* returns) and the workspace it leaves
Done(f) == [raised |-> "none", fs |-> f]
Fails(error, f) == [raised |-> error, fs |-> f]

\* Path.mkdir(parents=True, exist_ok=True)
MkdirParents(f, p) ==
    IF \E q \in Ancestors(p) \cup {p} : IsFile(f, q)
    THEN Fails("OSError", f)
    ELSE Done([q \in DOMAIN f \cup Ancestors(p) \cup {p} |->
                  IF q \in DOMAIN f THEN f[q] ELSE DirNode])

\* Path.mkdir(exist_ok=True)
Mkdir(f, p) ==
    IF Len(p) > 1 /\ ~IsDir(f, Parent(p)) THEN Fails("OSError", f)
    ELSE IF IsFile(f, p) THEN Fails("OSError", f)
    ELSE Done(Put(f, p, DirNode))

\* open(p, 'wb') and the write of data
WriteFile(f, p, data) ==
    IF (Len(p) > 1 /\ ~IsDir(f, Parent(p))) \/ IsDir(f, p)
    THEN Fails("OSError", f)
    ELSE Done(Put(f, p, FileNode(data)))

\* luigi.LocalTarget(p).open('w'), write('done') and close: the parent
\* directories are made, the text goes to a temporary file, and the
\* temporary file is renamed to p (which fails on a directory)
AtomicWrite(f, p) ==
    LET made == MkdirParents(f, Parent(p))
    IN  IF made.raised # "none" THEN made
        ELSE IF IsDir(made.fs, p) THEN Fails("OSError", made.fs)
        ELSE Done(Put(made.fs, p, FileNode(<< <<"done">> >>)))

\* luigi.LocalTarget(p).exists()
TargetExists(f, p) == Exists(f, p)

\* Path.stem: the name without its last suffix
Stem(name) ==
    IF Len(name) > 1 THEN SubSeq(name, 1, Len(name) - 1) ELSE name

\* the name matches "*" + suffix
HasSuffix(name, suffix) == Len(name) > 1 /\ name[Len(name)] = suffix

---------------------------------------------------------------------------
(***************************************************************************)
(* The artifacts of the stages: output() and requires() of the tasks.      *)
(***************************************************************************)

\* the accessions a dataset_id parameter is given
DatasetIds == {"GSE1", "GSE2"}

Stages == <<"Download", "Extract", "Process", "Trim", "Cleanup">>
StageSet == {Stages[i] : i \in 1..Len(Stages)}
StageIndex(stage) == CHOOSE i \in 1..Len(Stages) : Stages[i] = stage

RawDir == << <<"data">>, <<"raw">> >>
ExtractedDir(id) == << <<"data">>, <<"extracted">>, <<id>> >>
ProcessedDir(id) == << <<"data">>, <<"processed">>, <<id>> >>
\* the directory of the trimmed tables without the dataset_id
TrimmedDir_Shared(id) == << <<"data">>, <<"trimmed">> >>

TrimmedDir(id) == << <<"data">>, <<"trimmed">>, <<id>> >>
CleanupDir(id) == << <<"data">>, <<"cleanup">>, <<id>> >>

\* the output() of each task
Output(stage, id) ==
    CASE stage = "Download" -> Append(RawDir, <<id, "_RAW", ".tar">>)
      [] stage = "Extract"  -> Append(ExtractedDir(id), <<"_unpacked">>)
      [] stage = "Process"  -> Append(ProcessedDir(id), <<"_processed">>)
      [] stage = "Trim"     -> Append(TrimmedDir(id), <<"_trimmed">>)
      [] stage = "Cleanup"  -> Append(CleanupDir(id), <<"_cleanup">>)

\* requires() with ProcessFiles requiring DownloadDataset
Requires_ProcessAfterDownload(stage) ==
    CASE stage = "Download" -> {}
      [] stage = "Extract"  -> {"Download"}
      [] stage = "Process"  -> {"Download"}
      [] stage = "Trim"     -> {"Process"}
      [] stage = "Cleanup"  -> {"Trim"}

\* the requires() of each task: the stages it depends on
Requires(stage) ==
    CASE stage = "Download" -> {}
      [] stage = "Extract"  -> {"Download"}
      [] stage = "Process"  -> {"Extract"}
      [] stage = "Trim"     -> {"Process"}
      [] stage = "Cleanup"  -> {"Trim"}

\* FullPipeline.requires()
FullPipelineRequires == {"Cleanup"}

\* the empty workspace, and the history variables before anything happened
EmptyFs == [q \in {} |-> DirNode]
NoBody == [stage |-> "none", result |-> "none"]
NoDirect == [state |-> "none", extract |-> FALSE, before |-> {}]
NoDeletion == [stages |-> {}, intact |-> {}, run |-> 0]
\* a second process that has not called luigi.run() yet
NoPeer == [pc |-> "idle", pending |-> {}, todo |-> {}, outcome |-> "none",
           executed |-> <<>>, body |-> NoBody, attempted |-> {},
           dataset_id |-> "GSE1"]

\* luigi.Task.complete(): the output exists
Complete(f, stage) == TargetExists(f, Output(stage, dataset_id))

---------------------------------------------------------------------------
(***************************************************************************)
(* The archives the remote server may hold for the dataset: what a member  *)
(* of each name is.                                                        *)
(***************************************************************************)

ProbesText ==
    << <<"[", "Probes", "]">>,
       <<"ID", TAB, "Definition", TAB, "Gene">>,
       <<"x", TAB, "y", TAB, "z">> >>

TableText ==
    << <<"[", "A", "]">>, <<"x", TAB, "y">>, <<"y", TAB, "x">> >>

\* a section whose third row has more fields than its second
RaggedText ==
    << <<"[", "A", "]">>, <<"x">>, <<"x", TAB, "y">>, <<"z", TAB, "y", TAB, "x">> >>

\* a text with no section header
PlainText == << <<"x">> >>

Members ==
    { <<"s1", ".gz">>,          \* a gzip file of a text with a Probes section
      <<"bad", ".gz">>,         \* not a gzip file
      <<"trunc", ".gz">>,       \* a gzip file cut short
      <<"ragged", ".gz">>,      \* a gzip file of a text pandas cannot tokenize
      <<"plain", ".gz">>,       \* a gzip file of a text with no section
      <<"_processed", ".gz">>,  \* not a gzip file, named like the Process marker
      <<"_trimmed", ".gz">>,    \* a gzip file with a Probes section, named like the Trim marker
      <<"x", ".txt", ".gz">>,   \* a gzip file of a text named x.txt
      <<"_unpacked">> }         \* a plain file named like the Extract marker

\* what gzip.open(...).read makes of the member: "ok", "BadGzipFile" (bad
\* magic number; an OSError) or "EOFError" (the stream ends early)
GzKind(name) ==
    CASE name \in {<<"bad", ".gz">>, <<"_processed", ".gz">>} -> "BadGzipFile"
      [] name = <<"trunc", ".gz">> -> "EOFError"
      [] OTHER -> "ok"

\* the text the member decompresses to
MemberText(name) ==
    CASE name \in {<<"s1", ".gz">>, <<"_trimmed", ".gz">>} -> ProbesText
      [] name = <<"ragged", ".gz">> -> RaggedText
      [] name = <<"plain", ".gz">> -> PlainText
      [] name = <<"x", ".txt", ".gz">> -> TableText
      [] OTHER -> <<>>

---------------------------------------------------------------------------
(***************************************************************************)
(* The bodies of the tasks.                                                *)
(***************************************************************************)

\* the files written one after the other into directory dir
RECURSIVE PutAll(_, _, _)
PutAll(f, dir, files) ==
    IF DOMAIN files = {} THEN f
    ELSE LET n == CHOOSE n \in DOMAIN files : TRUE
         IN  PutAll(Put(f, Append(dir, n), FileNode(files[n])), dir,
                    [m \in DOMAIN files \ {n} |-> files[m]])

\* tar.extractall(path=output_path.parent) as far as the members got
ExtractAll(f, dir, got) ==
    [q \in DOMAIN f \cup {Append(dir, n) : n \in got} |->
        IF \E n \in got : q = Append(dir, n)
        THEN FileNode(MemberText(Name(q)))
        ELSE f[q]]

\* input_dir.glob("*.gz")
GlobGz(f, input_dir) ==
    {q \in Children(f, input_dir) : HasSuffix(Name(q), ".gz")}

\* one iteration of the loop of ProcessFiles.run on gz_file
ProcessOne(f, gz_file) ==
    LET file_stem == Stem(Name(gz_file))
        file_dir == Append(ProcessedDir(dataset_id), file_stem)
        txt_path == Append(file_dir, file_stem \o <<".txt">>)
        tables_dir == Append(file_dir, <<"tables">>)
        made == Mkdir(f, file_dir)
        opened == WriteFile(made.fs, txt_path, <<>>)
        kind == GzKind(Name(gz_file))
    IN  IF made.raised # "none" THEN made
        ELSE IF opened.raised # "none" \/ kind = "BadGzipFile"
        THEN Done(opened.fs)                       \* logged, continue
        ELSE IF kind = "EOFError" THEN Fails("EOFError", opened.fs)
        ELSE LET copied == Put(opened.fs, txt_path, FileNode(f[gz_file].data))
                 tables == Mkdir(copied, tables_dir)
                 parsed == ProcessTextFile(copied[txt_path].data)
             IN  IF tables.raised # "none" THEN tables
                 ELSE IF parsed.raised # "none"
                 THEN Fails(parsed.raised, tables.fs)
                 ELSE Done(PutAll(tables.fs, tables_dir, parsed.files))

\* processed_dir.glob("**/Probes.tsv")
GlobProbes(f, processed_dir) ==
    {q \in Descendants(f, processed_dir) : Name(q) = <<"Probes", ".tsv">>}

\* the list with Synonyms forgotten
columns_to_drop_NoSynonyms ==
    { <<"Definition">>, <<"Ontology_Component">>, <<"Ontology_Process">>,
      <<"Ontology_Function">>, <<"Obsolete_Probe_Id">>, <<"Probe_Sequence">> }

columns_to_drop ==
    { <<"Definition">>, <<"Ontology_Component">>, <<"Ontology_Process">>,
      <<"Ontology_Function">>, <<"Synonyms">>, <<"Obsolete_Probe_Id">>,
      <<"Probe_Sequence">> }

\* the text of a file as pandas reads it
RECURSIVE FileBuffer(_)
FileBuffer(lines) ==
    IF lines = <<>> THEN <<>>
    ELSE Head(lines) \o <<NL>> \o FileBuffer(Tail(lines))

\* the elements of seq at the positions keep holds, in order
RECURSIVE Project(_, _, _)
Project(seq, keep, i) ==
    IF i > Len(seq) THEN <<>>
    ELSE (IF i \in keep THEN <<seq[i]>> ELSE <<>>) \o Project(seq, keep, i + 1)

\* df.drop(columns=existing_columns, errors='ignore')
DropColumns(df, drop) ==
    LET keep == {i \in 1..Len(df.columns) : df.columns[i] \notin drop}
    IN  [columns |-> Project(df.columns, keep, 1),
         leading |-> df.leading,
         rows |-> [k \in 1..Len(df.rows) |->
                     Project(df.rows[k],
                             (1..df.leading) \cup {df.leading + i : i \in keep}, 1)]]

\* _process_probes_file(input_path, output_dir): every exception is logged
ProcessProbesFile(f, input_path, output_dir) ==
    IF ~IsFile(f, input_path) THEN f
    ELSE LET r == ReadCsv(FileBuffer(f[input_path].data), "infer")
             existing_columns == {c \in columns_to_drop :
                                    \E i \in 1..Len(r.table.columns) :
                                        r.table.columns[i] = c}
             df_trimmed == DropColumns(r.table, existing_columns)
             output_path == Append(output_dir, <<"Probes_trimmed", ".tsv">>)
         IN  IF r.status # "ok" THEN f
             ELSE WriteFile(f, output_path, ToCsv(df_trimmed)).fs

\* one iteration of the loop of TrimProbes.run on probes_path
TrimOne(f, probes_path) ==
    LET processed_dir == ProcessedDir(dataset_id)
        relative_path == SubSeq(probes_path, Len(processed_dir) + 1,
                                Len(probes_path) - 1)
        trimmed_dir == TrimmedDir(dataset_id) \o relative_path
        made == MkdirParents(f, trimmed_dir)
    IN  IF made.raised # "none" THEN made
        ELSE Done(ProcessProbesFile(made.fs, probes_path, trimmed_dir))

\* processed_dir.glob("**/*"): every entry matches
GlobTxt_All(f, processed_dir) == Descendants(f, processed_dir)

\* processed_dir.glob("**/*.txt")
GlobTxt(f, processed_dir) ==
    {q \in Descendants(f, processed_dir) : HasSuffix(Name(q), ".txt")}

\* the second loop of Cleanup.run: glob("**/*") yields a directory before it
\* yields what is in it, so the directories removed are those that are
\* empty when the loop starts
RemoveEmptyDirs(f, processed_dir) ==
    Without(f, {q \in Descendants(f, processed_dir) :
                   IsDir(f, q) /\ Children(f, q) = {}})

---------------------------------------------------------------------------
(***************************************************************************)
(* The parser read line by line (specification SpecParse).                 *)
(***************************************************************************)

\* the raw lines a text file is made of
Lines ==
    { <<" ">>,
      <<"[", "A", "]">>,
      <<" ", "[", "Heading", "]", " ">>,
      <<"[", "]">>,
      <<"[", "[", "A", "]", "]">>,
      <<"[", "B", "]", "x">>,
      <<"x">>,
      <<"x", TAB, "y">>,
      <<"z", TAB, "y", TAB, "x">>,
      <<TAB, "y", " ">>,
      <<"x", "[", "A", "]">> }

InitParser ==
    /\ text = <<>>
    /\ parser = ParserStart
    /\ parser_pc = "reading"
    /\ written = <<>>
    /\ header_at = 0
    /\ handed = <<>>
    /\ warnings = <<>>

\* history of one call of _finalize_section: what it was given, the lines of
\* text it was collected from (first < k < last) and what read_csv made of it
Handing(f, section, buffer, last) ==
    IF ~f.parsed THEN <<>>
    ELSE << [section |-> section.name,
             buffer |-> buffer,
             first |-> header_at,
             last |-> last,
             status |-> IF f.raised # "none" THEN f.raised
                        ELSE IF f.warned THEN "EmptyDataError" ELSE "ok",
             table |-> IF f.raised = "none" /\ ~f.warned
                       THEN f.dfs[section.name]
                       ELSE [columns |-> <<>>, leading |-> 0, rows |-> <<>>]] >>

\* the history of one iteration that went to next and whose call of
\* _finalize_section (at a header) gave f
ReadTo(raw, isHeader, next, f) ==
    /\ text' = Append(text, raw)
    /\ parser' = next
    /\ parser_pc' = IF next.raised = "none" THEN "reading" ELSE "raised"
    /\ header_at' = IF isHeader /\ next.raised = "none"
                    THEN Len(text) + 1 ELSE header_at
    /\ handed' = IF isHeader
                 THEN handed \o Handing(f, parser.current_section,
                                        parser.buffer, Len(text) + 1)
                 ELSE handed
    /\ warnings' = IF isHeader /\ f.warned
                   THEN Append(warnings, parser.current_section.name)
                   ELSE warnings

\* for line in f: one line of the file is read
ReadLine(raw) ==
    /\ parser_pc = "reading"
    /\ Len(text) < MaxLines
    /\ ReadTo(raw, StartsWithBracket(Strip(raw)), ParseLine(parser, raw),
              FinalizeSection(parser.dfs, parser.current_section, parser.buffer))
    /\ UNCHANGED written
    /\ UNCHANGED pipeline_vars

\* the history of the end of the loop
EndTo(next, f) ==
    /\ parser' = next
    /\ parser_pc' = IF next.raised = "none" THEN "saved" ELSE "raised"
    /\ written' = IF next.raised = "none" THEN SavedTables(next.dfs)
                  ELSE written
    /\ handed' = handed \o Handing(f, parser.current_section,
                                   parser.buffer, Len(text) + 1)
    /\ warnings' = IF f.warned
                   THEN Append(warnings, parser.current_section.name)
                   ELSE warnings

\* the end of the file: the final section is finalized and the tables saved
EndOfFile ==
    /\ parser_pc = "reading"
    /\ EndTo(ParseEnd(parser),
             FinalizeSection(parser.dfs, parser.current_section, parser.buffer))
    /\ UNCHANGED <<text, header_at>>
    /\ UNCHANGED pipeline_vars

NextParse ==
    \/ \E raw \in Lines : ReadLine(raw)
    \/ EndOfFile

\* a text file of at most MaxLines lines parsed; the pipeline is not run
InitParse ==
    /\ InitParser
    /\ dataset_id = "GSE1"
    /\ archive = {}
    /\ fs = EmptyFs
    /\ pc = "idle"
    /\ pending = {}
    /\ todo = {}
    /\ runs = 0
    /\ outcome = "none"
    /\ executed = <<>>
    /\ completed = {}
    /\ body = NoBody
    /\ attempted = {}
    /\ succeeded = FALSE
    /\ direct = NoDirect
    /\ deleted = NoDeletion
    /\ peer = NoPeer

SpecParse == InitParse /\ [][NextParse]_vars

---------------------------------------------------------------------------
(***************************************************************************)
(* luigi: a run schedules the tasks that are not complete, from            *)
(* FullPipeline down, and runs each once the tasks it requires are done.   *)
(***************************************************************************)

\* the scheduling of a task without the look at complete(): the task and
\* every task it depends on
Scheduled_IgnoreComplete(f, stage) ==
    {t \in StageSet : StageIndex(t) <= StageIndex(stage)}

\* worker.add(task): a complete task is not scheduled and its requirements
\* are not looked at; an incomplete one is scheduled with its requirements
RECURSIVE Scheduled(_, _)
Scheduled(f, stage) ==
    IF Complete(f, stage) THEN {}
    ELSE {stage} \cup UNION {Scheduled(f, r) : r \in Requires(stage)}

\* the scheduling with output() lost: no task is ever complete
Schedule_NeverComplete(f) == StageSet

\* luigi.run() on FullPipeline: the tasks to run
Schedule(f) == UNION {Scheduled(f, r) : r \in FullPipelineRequires}

\* the worker's check before it calls run(): every required task is complete
DepsComplete(f, stage) == \A r \in Requires(stage) : Complete(f, r)

\* the scheduler hands out a pending task whose requirements are done
Runnable(stage) ==
    /\ pc = "running"
    /\ stage \in pending
    /\ Requires(stage) \cap pending = {}

\* the paths at or below data/processed
ProcessedPaths(f) ==
    {q \in DOMAIN f : q = << <<"data">>, <<"processed">> >>
                      \/ IsUnder(q, << <<"data">>, <<"processed">> >>)}

\* the process before its first luigi.run(), on an empty workspace
InitRun ==
    /\ dataset_id = "GSE1"
    /\ archive \in {a \in SUBSET Members : Cardinality(a) <= MaxMembers}
    /\ fs = EmptyFs
    /\ pc = "idle"
    /\ pending = {}
    /\ todo = {}
    /\ runs = 0
    /\ outcome = "none"
    /\ executed = <<>>
    /\ completed = {}
    /\ body = NoBody
    /\ attempted = {}
    /\ succeeded = FALSE
    /\ direct = NoDirect
    /\ deleted = NoDeletion

InitPipeline == InitRun /\ peer = NoPeer

\* the body of the task returned: the task is done
Returned(stage, f) ==
    /\ fs' = f
    /\ todo' = {}
    /\ completed' = completed \cup {stage}
    /\ body' = [stage |-> stage, result |-> "ok"]
    /\ IF direct.state = "running"
       THEN /\ direct' = [direct EXCEPT !.state = "returned"]
            /\ pc' = "idle"
            /\ UNCHANGED <<pending, outcome, succeeded>>
       ELSE /\ pending' = pending \ {stage}
            /\ pc' = IF pending' = {} THEN "idle" ELSE "running"
            /\ outcome' = IF pending' = {} THEN "success" ELSE outcome
            /\ succeeded' = (succeeded \/ pending' = {})
            /\ UNCHANGED direct

\* the body of the task raised (or was killed): the task failed, the tasks
\* that require it are not run, and the run ends
Raised(stage, f, how) ==
    /\ fs' = f
    /\ todo' = {}
    /\ body' = [stage |-> stage, result |-> how]
    /\ pc' = "idle"
    /\ UNCHANGED <<completed, succeeded>>
    /\ IF direct.state = "running"
       THEN /\ direct' = [direct EXCEPT !.state = "raised"]
            /\ UNCHANGED <<pending, outcome>>
       ELSE /\ pending' = {}
            /\ outcome' = "failed"
            /\ UNCHANGED direct

\* a required task is not complete when the task is to run: the worker
\* raises "Unfulfilled dependency at run time" and does not call run()
Unfulfilled ==
    /\ pending' = {}
    /\ outcome' = "failed"
    /\ pc' = "idle"
    /\ UNCHANGED <<fs, todo, completed, body, succeeded, direct, executed,
                   attempted>>

\* luigi.run(): FullPipeline is scheduled; with nothing to run the run is over
StartRun ==
    /\ pc = "idle"
    /\ runs < MaxRuns
    /\ runs' = runs + 1
    /\ pending' = Schedule(fs)
    /\ pc' = IF pending' = {} THEN "idle" ELSE "running"
    /\ outcome' = IF pending' = {} THEN "success" ELSE "running"
    /\ succeeded' = (succeeded \/ pending' = {})
    /\ executed' = <<>>
    /\ direct' = NoDirect
    /\ UNCHANGED <<archive, fs, todo, completed, body, attempted, deleted>>
    /\ UNCHANGED <<parser_vars, dataset_id, peer>>

\* DownloadDataset.run: wget.download fetches into a temporary file and
\* moves it to output_path when the transfer is complete
RunDownload ==
    /\ Runnable("Download")
    /\ executed' = Append(executed, "Download")
    /\ \E ok \in BOOLEAN :
          LET made == MkdirParents(fs, RawDir)
          IN  IF made.raised # "none" \/ ~ok
              THEN Raised("Download", made.fs, "failed")
              ELSE Returned("Download",
                            Put(made.fs, Output("Download", dataset_id),
                                FileNode(<<>>)))
    /\ UNCHANGED <<archive, runs, attempted, deleted>>
    /\ UNCHANGED <<parser_vars, dataset_id, peer>>

\* ExtractMainArchive.run: the members are extracted, then the flag written;
\* a TarError or OSError on the way ends the body after some of the members
ExtractBody ==
    /\ executed' = Append(executed, "Extract")
    /\ \E ok \in BOOLEAN, got \in SUBSET archive :
          /\ ok => got = archive
          /\ LET made == MkdirParents(fs, ExtractedDir(dataset_id))
                 extracted == ExtractAll(made.fs, ExtractedDir(dataset_id), got)
                 flag == AtomicWrite(extracted, Output("Extract", dataset_id))
             IN  IF made.raised # "none"
                 THEN Raised("Extract", made.fs, "failed")
                 ELSE IF ~ok THEN Raised("Extract", extracted, "failed")
                 ELSE IF flag.raised # "none"
                 THEN Raised("Extract", flag.fs, "failed")
                 ELSE Returned("Extract", flag.fs)
    /\ UNCHANGED attempted

RunExtract ==
    /\ Runnable("Extract")
    /\ IF DepsComplete(fs, "Extract") THEN ExtractBody ELSE Unfulfilled
    /\ UNCHANGED <<archive, runs, deleted>>
    /\ UNCHANGED <<parser_vars, dataset_id, peer>>

\* ProcessFiles.run up to its loop: output_dir is made and the glob read
ProcessStart ==
    LET made == MkdirParents(fs, ProcessedDir(dataset_id))
    IN  /\ attempted' = {}
        /\ IF made.raised # "none"
           THEN Raised("Process", made.fs, "failed")
           ELSE /\ fs' = made.fs
                /\ todo' = GlobGz(made.fs, ExtractedDir(dataset_id))
                /\ pc' = "Process"
                /\ body' = [stage |-> "Process", result |-> "running"]
                /\ UNCHANGED <<pending, outcome, succeeded, completed>>

ProcessBegin ==
    /\ Runnable("Process")
    /\ IF DepsComplete(fs, "Process")
       THEN /\ executed' = Append(executed, "Process")
            /\ ProcessStart
            /\ UNCHANGED direct
       ELSE Unfulfilled
    /\ UNCHANGED <<archive, runs, deleted>>
    /\ UNCHANGED <<parser_vars, dataset_id, peer>>

\* ProcessFiles(dataset_id).run() called directly, not by luigi
DirectProcessRun ==
    /\ pc = "idle"
    /\ runs < MaxRuns
    /\ runs' = runs + 1
    /\ executed' = <<>>
    /\ direct' = [state |-> "running",
                  extract |-> Complete(fs, "Extract"),
                  before |-> ProcessedPaths(fs)]
    /\ ProcessStart
    /\ UNCHANGED <<archive, deleted>>
    /\ UNCHANGED <<parser_vars, dataset_id, peer>>

\* one iteration of the loop of ProcessFiles.run
ProcessFile(gz_file) ==
    /\ pc = "Process"
    /\ gz_file \in todo
    /\ attempted' = attempted \cup {gz_file}
    /\ LET r == ProcessOne(fs, gz_file)
       IN  IF r.raised # "none"
           THEN Raised("Process", r.fs, "failed")
           ELSE /\ fs' = r.fs
                /\ todo' = todo \ {gz_file}
                /\ UNCHANGED <<pc, pending, outcome, succeeded, completed,
                               body, direct>>
    /\ UNCHANGED <<archive, runs, executed, deleted>>
    /\ UNCHANGED <<parser_vars, dataset_id, peer>>

\* the end of ProcessFiles.run: the flag is written
ProcessEnd ==
    /\ pc = "Process"
    /\ todo = {}
    /\ LET flag == AtomicWrite(fs, Output("Process", dataset_id))
       IN  IF flag.raised # "none"
           THEN Raised("Process", flag.fs, "failed")
           ELSE Returned("Process", flag.fs)
    /\ UNCHANGED <<archive, runs, executed, attempted, deleted>>
    /\ UNCHANGED <<parser_vars, dataset_id, peer>>

\* TrimProbes.run up to its loop
TrimBegin ==
    /\ Runnable("Trim")
    /\ IF DepsComplete(fs, "Trim")
       THEN /\ executed' = Append(executed, "Trim")
            /\ attempted' = {}
            /\ todo' = GlobProbes(fs, ProcessedDir(dataset_id))
            /\ pc' = "Trim"
            /\ body' = [stage |-> "Trim", result |-> "running"]
            /\ UNCHANGED <<fs, pending, outcome, succeeded, completed, direct>>
       ELSE Unfulfilled
    /\ UNCHANGED <<archive, runs, deleted>>
    /\ UNCHANGED <<parser_vars, dataset_id, peer>>

\* one iteration of the loop of TrimProbes.run
TrimFile(probes_path) ==
    /\ pc = "Trim"
    /\ probes_path \in todo
    /\ attempted' = attempted \cup {probes_path}
    /\ LET r == TrimOne(fs, probes_path)
       IN  IF r.raised # "none"
           THEN Raised("Trim", r.fs, "failed")
           ELSE /\ fs' = r.fs
                /\ todo' = todo \ {probes_path}
                /\ UNCHANGED <<pc, pending, outcome, succeeded, completed,
                               body, direct>>
    /\ UNCHANGED <<archive, runs, executed, deleted>>
    /\ UNCHANGED <<parser_vars, dataset_id, peer>>

\* the end of TrimProbes.run: the flag is written
TrimEnd ==
    /\ pc = "Trim"
    /\ todo = {}
    /\ LET flag == AtomicWrite(fs, Output("Trim", dataset_id))
       IN  IF flag.raised # "none"
           THEN Raised("Trim", flag.fs, "failed")
           ELSE Returned("Trim", flag.fs)
    /\ UNCHANGED <<archive, runs, executed, attempted, deleted>>
    /\ UNCHANGED <<parser_vars, dataset_id, peer>>

\* Cleanup.run: unlink on a directory raises an OSError that is not
\* FileNotFoundError and ends the body, after the files the glob gave before
CleanupBody ==
    /\ executed' = Append(executed, "Cleanup")
    /\ LET processed_dir == ProcessedDir(dataset_id)
           matches == GlobTxt(fs, processed_dir)
           files == {q \in matches : IsFile(fs, q)}
       IN  \E unlinked \in SUBSET files :
              /\ matches = files => unlinked = files
              /\ LET removed == Without(fs, unlinked)
                     cleaned == RemoveEmptyDirs(removed, processed_dir)
                     flag == AtomicWrite(cleaned, Output("Cleanup", dataset_id))
                 IN  IF matches # files
                     THEN Raised("Cleanup", removed, "failed")
                     ELSE IF flag.raised # "none"
                     THEN Raised("Cleanup", flag.fs, "failed")
                     ELSE Returned("Cleanup", flag.fs)
    /\ UNCHANGED attempted

RunCleanup ==
    /\ Runnable("Cleanup")
    /\ IF DepsComplete(fs, "Cleanup") THEN CleanupBody ELSE Unfulfilled
    /\ UNCHANGED <<archive, runs, deleted>>
    /\ UNCHANGED <<parser_vars, dataset_id, peer>>

\* the process is killed inside a loop of a body
Interrupt ==
    /\ pc \in {"Process", "Trim"}
    /\ Raised(pc, fs, "interrupted")
    /\ UNCHANGED <<archive, runs, executed, attempted, deleted>>
    /\ UNCHANGED <<parser_vars, dataset_id, peer>>

\* between two runs, after a run that succeeded, the markers of the stages
\* of gone are deleted by hand (a directory with what is in it)
DeleteMarkers(gone) ==
    /\ pc = "idle"
    /\ outcome = "success"
    /\ deleted = NoDeletion
    /\ peer = NoPeer
    /\ gone # {}
    /\ \A s \in gone : Complete(fs, s)
    /\ fs' = Without(fs, UNION {{Output(s, dataset_id)}
                                 \cup Descendants(fs, Output(s, dataset_id)) :
                                 s \in gone})
    /\ deleted' = [stages |-> gone,
                   intact |-> {s \in StageSet : Complete(fs', s)},
                   run |-> runs]
    /\ UNCHANGED <<archive, pc, pending, todo, runs, outcome, executed,
                   completed, body, attempted, succeeded, direct>>
    /\ UNCHANGED <<parser_vars, dataset_id, peer>>

Init == InitParser /\ InitPipeline

Next ==
    \/ StartRun
    \/ RunDownload
    \/ RunExtract
    \/ ProcessBegin
    \/ \E gz_file \in todo : ProcessFile(gz_file)
    \/ ProcessEnd
    \/ TrimBegin
    \/ \E probes_path \in todo : TrimFile(probes_path)
    \/ TrimEnd
    \/ RunCleanup
    \/ Interrupt

\* the pipeline run any number of times
Spec == Init /\ [][Next]_vars

NextResume ==
    \/ Next
    \/ \E gone \in SUBSET StageSet : DeleteMarkers(gone)

\* the pipeline run any number of times, with markers deleted in between
SpecResume == Init /\ [][NextResume]_vars

NextDirect ==
    \/ Next
    \/ DirectProcessRun

\* the pipeline run any number of times, and ProcessFiles.run() called directly
SpecDirect == Init /\ [][NextDirect]_vars

\* two luigi processes, each with a scheduler of its own (--local-scheduler),
\* run on the same workspace: the operating system takes the processor from
\* the one and gives it to the other, between two steps of a body
Switch ==
    /\ peer' = [pc |-> pc, pending |-> pending, todo |-> todo,
                outcome |-> outcome, executed |-> executed, body |-> body,
                attempted |-> attempted, dataset_id |-> dataset_id]
    /\ dataset_id' = peer.dataset_id
    /\ pc' = peer.pc
    /\ pending' = peer.pending
    /\ todo' = peer.todo
    /\ outcome' = peer.outcome
    /\ executed' = peer.executed
    /\ body' = peer.body
    /\ attempted' = peer.attempted
    /\ UNCHANGED <<archive, fs, runs, completed, succeeded, direct, deleted>>
    /\ UNCHANGED parser_vars

NextConcurrent ==
    \/ Next
    \/ Switch

\* two processes run the pipeline for the same dataset_id
SpecConcurrent == Init /\ [][NextConcurrent]_vars

\* two processes run the pipeline, the one for GSE1, the other for GSE2
InitDatasets ==
    /\ InitParser
    /\ InitRun
    /\ peer = [NoPeer EXCEPT !.dataset_id = "GSE2"]

SpecDatasets == InitDatasets /\ [][NextConcurrent]_vars

---------------------------------------------------------------------------
(***************************************************************************)
(* TrimProbes on generated Probes sections (specification SpecTrim): the   *)
(* archive held one file s1.gz with one Probes section, and the run has    *)
(* got as far as ProcessFiles.                                             *)
(***************************************************************************)

\* the column names a generated Probes section draws from
ProbeColumns == { <<"ID">>, <<"Definition">>, <<"Gene">>, <<"Synonyms">> }

\* the headers: up to MaxColumns distinct names, ID or Gene among them
ProbeHeaders ==
    {h \in UNION {[1..n -> ProbeColumns] : n \in 1..MaxColumns} :
        /\ \A i, j \in 1..Len(h) : h[i] = h[j] => i = j
        /\ \E i \in 1..Len(h) : h[i] \in {<<"ID">>, <<"Gene">>}}

\* the value in row r, column c: different in every cell
Cell(r, c) == <<"v">> \o ColumnIndexName(r) \o ColumnIndexName(c)

\* the text of a file with one Probes section of the header and n rows
ProbesSection(h, n) ==
    << <<"[", "Probes", "]">>, JoinWith(h, TAB) >> \o
    [r \in 1..n |-> JoinWith([c \in 1..Len(h) |-> Cell(r, c)], TAB)]

\* the member s1.gz and what ProcessFiles makes of it
GeneratedGz == Append(ExtractedDir(dataset_id), <<"s1", ".gz">>)
GeneratedProbes ==
    ProcessedDir(dataset_id) \o << <<"s1">>, <<"tables">>, <<"Probes", ".tsv">> >>
GeneratedTrimmed ==
    TrimmedDir(dataset_id) \o
        << <<"s1">>, <<"tables">>, <<"Probes_trimmed", ".tsv">> >>

\* the workspace after DownloadDataset, ExtractMainArchive and ProcessFiles
\* have run on an archive whose one member s1.gz decompresses to lines; each
\* step is taken on the workspace the step before has left
ProcessedWorkspace(lines) ==
    LET raw == {Put(MkdirParents(EmptyFs, RawDir).fs,
                    Output("Download", dataset_id), FileNode(<<>>))}
        member == {Put(MkdirParents(f, ExtractedDir(dataset_id)).fs,
                       GeneratedGz, FileNode(lines)) : f \in raw}
        unpacked == {AtomicWrite(f, Output("Extract", dataset_id)).fs :
                        f \in member}
        made == {MkdirParents(f, ProcessedDir(dataset_id)).fs : f \in unpacked}
        processed == {ProcessOne(f, GeneratedGz).fs : f \in made}
    IN  CHOOSE f \in {AtomicWrite(g, Output("Process", dataset_id)).fs :
                         g \in processed} : TRUE

InitTrim ==
    /\ InitParser
    /\ dataset_id = "GSE1"
    /\ archive = {<<"s1", ".gz">>}
    /\ \E h \in ProbeHeaders, n \in 0..MaxRows :
          fs = ProcessedWorkspace(ProbesSection(h, n))
    /\ pc = "running"
    /\ pending = {"Trim", "Cleanup"}
    /\ todo = {}
    /\ runs = 1
    /\ outcome = "running"
    /\ executed = <<"Download", "Extract", "Process">>
    /\ completed = {"Download", "Extract", "Process"}
    /\ body = [stage |-> "Process", result |-> "ok"]
    /\ attempted = {GeneratedGz}
    /\ succeeded = FALSE
    /\ direct = NoDirect
    /\ deleted = NoDeletion
    /\ peer = NoPeer

NextTrim ==
    \/ TrimBegin
    \/ \E probes_path \in todo : TrimFile(probes_path)
    \/ TrimEnd

SpecTrim == InitTrim /\ [][NextTrim]_vars

---------------------------------------------------------------------------
(***************************************************************************)
(* Properties of the pipeline (checked under Spec, SpecResume, SpecDirect).*)
(***************************************************************************)

\* the stage before a stage in Download, Extract, Process, Trim, Cleanup
HasPredecessor(stage) == StageIndex(stage) > 1
Predecessor(stage) == Stages[StageIndex(stage) - 1]
Upto(seq) == {seq[i] : i \in 1..Len(seq)}

\* C1: the completion marker of a stage exists only if the body of the stage
\* has run to successful completion; a body that fails or is interrupted
\* never leaves its marker present
C1_MarkerOnlyAfterSuccess ==
    \A stage \in StageSet : Complete(fs, stage) => stage \in completed

\* C2: in a pipeline run the body of a stage starts only where the marker of
\* its predecessor exists and its own marker does not, and after the bodies
\* of earlier stages only
C2_StartOrder ==
    [][ Len(executed') = Len(executed) + 1 =>
          LET stage == executed'[Len(executed')]
          IN  /\ HasPredecessor(stage) => Complete(fs, Predecessor(stage))
              /\ ~Complete(fs, stage)
              /\ \A i \in 1..Len(executed) :
                    StageIndex(executed[i]) < StageIndex(stage) ]_vars

\* C2 witness: one run started the five bodies, in order, and succeeded
C2_Witness ==
    /\ executed = Stages
    /\ outcome = "success"
    /\ pc = "idle"

\* C3: ProcessFiles.run() called directly while the Extract marker is absent
\* fails and creates nothing at or below data/processed
C3_DirectProcessNeedsExtract ==
    (direct.state # "none" /\ ~direct.extract) =>
        /\ direct.state # "returned"
        /\ ProcessedPaths(fs) = direct.before

\* C4: once a full pipeline run has succeeded, a further run starts no body
\* and leaves the workspace as it is
C4_Idempotent ==
    [][ succeeded => (fs' = fs /\ executed' \in {executed, <<>>}) ]_vars

\* C4 witness: a run that executed the five bodies succeeded, and a second
\* run ended without starting a body
C4_Witness ==
    /\ succeeded
    /\ completed = StageSet
    /\ runs >= 2
    /\ pc = "idle"
    /\ executed = <<>>
    /\ outcome = "success"

\* the stages from a stage on
FromOn(stage) == {t \in StageSet : StageIndex(t) >= StageIndex(stage)}

\* the run after the deletion is over
ResumedRunOver == runs = deleted.run + 1 /\ pc = "idle"

Inputs == GlobGz(fs, ExtractedDir(dataset_id))

\* the tables of an input that decompresses and parses are written
TablesWritten(gz_file) ==
    LET tables_dir == ProcessedDir(dataset_id)
                      \o << Stem(Name(gz_file)), <<"tables">> >>
    IN  \A n \in DOMAIN ProcessTextFile(MemberText(Name(gz_file))).files :
            IsFile(fs, Append(tables_dir, n))

\* no input is named like the marker of the Process stage
NoMarkerNamedInput ==
    \A gz_file \in Inputs : Stem(Name(gz_file)) # <<"_processed">>

\* the body of the Process stage, run by luigi, has ended of itself
ProcessBodyEnded ==
    /\ body.stage = "Process"
    /\ body.result \in {"ok", "failed"}
    /\ direct.state = "none"

\* C6: with inputs of which some fail to decompress (and all the others
\* parse), the Process stage attempts every input, writes the tables of every
\* input that decompresses and parses, and writes its marker
C6_DecompressFailureIsolated ==
    (/\ ProcessBodyEnded
     /\ NoMarkerNamedInput
     /\ \E gz_file \in Inputs : GzKind(Name(gz_file)) # "ok"
     /\ \A gz_file \in Inputs :
           ProcessTextFile(MemberText(Name(gz_file))).raised = "none")
    => /\ attempted = Inputs
       /\ Complete(fs, "Process")
       /\ \A gz_file \in Inputs :
             GzKind(Name(gz_file)) = "ok" => TablesWritten(gz_file)

\* C7: with inputs that all decompress and of which some fail to parse, the
\* Process stage skips those, processes the others, and writes its marker
C7_ParseFailureIsolated ==
    (/\ ProcessBodyEnded
     /\ NoMarkerNamedInput
     /\ \A gz_file \in Inputs : GzKind(Name(gz_file)) = "ok"
     /\ \E gz_file \in Inputs :
           ProcessTextFile(MemberText(Name(gz_file))).raised # "none")
    => /\ attempted = Inputs
       /\ Complete(fs, "Process")
       /\ \A gz_file \in Inputs :
             ProcessTextFile(MemberText(Name(gz_file))).raised = "none"
                 => TablesWritten(gz_file)

\* the body of Cleanup has returned, and no body has started since
CleanupReturned == body = [stage |-> "Cleanup", result |-> "ok"]

\* a directory with nothing in it
EmptyDir(f, q) == IsDir(f, q) /\ Children(f, q) = {}

\* C12: when the Cleanup stage has completed, no .txt file and no empty
\* directory remains under data/processed/<D>
C12_CleanupPostcondition ==
    CleanupReturned =>
        \A q \in Descendants(fs, ProcessedDir(dataset_id)) :
            /\ ~(IsFile(fs, q) /\ HasSuffix(Name(q), ".txt"))
            /\ ~EmptyDir(fs, q)

\* C13: whatever lies under data/processed/<D> when Cleanup runs, an entry
\* matching *.txt that is a directory included, the body of Cleanup does
\* not fail: it returns and data/cleanup/<D>/_cleanup is written
C13_CleanupBestEffort ==
    (body.stage = "Cleanup" /\ body.result # "running") =>
        /\ body.result = "ok"
        /\ IsFile(fs, Output("Cleanup", dataset_id))

\* the runs of both processes are under way
BothRunning == outcome = "running" /\ peer.outcome = "running"

\* C14: with two concurrent runs for the same dataset_id, no body is executed
\* by both runs, and the loops of the same body are never under way in both
C14_AtMostOneInFlight ==
    BothRunning =>
        /\ Upto(executed) \cap Upto(peer.executed) = {}
        /\ ~(pc \in {"Process", "Trim"} /\ peer.pc = pc)

\* the persisted layout: the paths of a stage of a dataset
Owns(stage, id, q) ==
    LET under(root) == q = root \/ IsUnder(q, root)
    IN  CASE stage = "Download" ->
                q = << <<"data">>, <<"raw">>, <<id, "_RAW", ".tar">> >>
          [] stage = "Extract" -> under(<< <<"data">>, <<"extracted">>, <<id>> >>)
          [] stage = "Process" -> under(<< <<"data">>, <<"processed">>, <<id>> >>)
          [] stage = "Trim"    -> under(<< <<"data">>, <<"trimmed">>, <<id>> >>)
          [] stage = "Cleanup" -> under(<< <<"data">>, <<"cleanup">>, <<id>> >>)
          [] OTHER -> FALSE

\* the directories the datasets share: data and data/<kind>
SharedDirs ==
    { << <<"data">> >> } \cup
    { << <<"data">>, <<kind>> >> :
        kind \in {"raw", "extracted", "processed", "trimmed", "cleanup"} }

\* what a step does to path q
Created(q) == q \notin DOMAIN fs /\ q \in DOMAIN fs'
Removed(q) == q \in DOMAIN fs /\ q \notin DOMAIN fs'
Rewritten(q) == q \in DOMAIN fs /\ q \in DOMAIN fs' /\ fs'[q] # fs[q]

CleanupStep ==
    /\ Len(executed') = Len(executed) + 1
    /\ executed'[Len(executed')] = "Cleanup"

\* what the claim says Cleanup retains: the raw archive, what is under
\* data/extracted/<D> and data/trimmed/<D>, and the .tsv files under
\* data/processed/<D>
Retained(q) ==
    \/ q = Output("Download", dataset_id)
    \/ IsUnder(q, ExtractedDir(dataset_id))
    \/ IsUnder(q, TrimmedDir(dataset_id))
    \/ /\ IsUnder(q, ProcessedDir(dataset_id))
       /\ IsFile(fs, q)
       /\ HasSuffix(Name(q), ".tsv")

\* what Cleanup may remove: a .txt file under data/processed/<D>, or a
\* directory under it of which nothing is left
Removable(q) ==
    /\ IsUnder(q, ProcessedDir(dataset_id))
    /\ \/ IsFile(fs, q) /\ HasSuffix(Name(q), ".txt")
       \/ IsDir(fs, q) /\ \A d \in Descendants(fs, q) : Removed(d)

\* the body of Cleanup retains what Retained names, rewrites nothing and
\* removes only what Removable names
CleanupFrame ==
    \A q \in DOMAIN fs :
        /\ Retained(q) => q \in DOMAIN fs' /\ fs'[q] = fs[q]
        /\ ~Rewritten(q)
        /\ Removed(q) => Removable(q)

\* C19 as stated: the body of Cleanup keeps the frame, and the only entry
\* it creates is its own marker
C19_CleanupFrameMarkerOnly ==
    [][ CleanupStep =>
          /\ CleanupFrame
          /\ \A q \in DOMAIN fs' :
                Created(q) => q = Output("Cleanup", dataset_id) ]_vars

\* C19 amended: the body of Cleanup leaves the raw archive, what is under
\* data/extracted/<D> and data/trimmed/<D> and every .tsv file under
\* data/processed/<D> unchanged, removes only .txt files and empty
\* directories under data/processed/<D>, and creates only its marker and
\* the directories data/cleanup and data/cleanup/<D> that hold it
C19_CleanupFrame ==
    [][ CleanupStep =>
          /\ CleanupFrame
          /\ \A q \in DOMAIN fs' :
                Created(q) =>
                    \/ q = Output("Cleanup", dataset_id)
                    \/ /\ q \in {CleanupDir(dataset_id),
                                 Parent(CleanupDir(dataset_id))}
                       /\ fs'[q] = DirNode ]_vars

\* C19 witness: Cleanup has returned; of an input of the Process stage the
\* tables are there and the decompressed text is gone, the raw archive and
\* the marker of the Trim stage are there
C19_Witness ==
    /\ CleanupReturned
    /\ IsFile(fs, Output("Download", dataset_id))
    /\ IsFile(fs, Output("Trim", dataset_id))
    /\ \E gz_file \in Inputs :
          LET file_dir == Append(ProcessedDir(dataset_id), Stem(Name(gz_file)))
          IN  /\ IsDir(fs, file_dir)
              /\ \E q \in Descendants(fs, file_dir) :
                    IsFile(fs, q) /\ HasSuffix(Name(q), ".tsv")
              /\ \A q \in Descendants(fs, file_dir) :
                    ~HasSuffix(Name(q), ".txt")

\* the stages whose marker is present
Marked(f) == {stage \in StageSet : Complete(f, stage)}

\* the marker of every stage before a marked stage is present
MarkerPrefix(f) ==
    \A stage \in Marked(f) :
        \A earlier \in StageSet :
            StageIndex(earlier) < StageIndex(stage) => earlier \in Marked(f)

\* C20: with no deletion from outside, the markers present are a prefix of
\* Download, Extract, Process, Trim, Cleanup in every reachable state, and
\* no step of a stage body removes a marker
C20_MarkerChain ==
    /\ [](deleted = NoDeletion => MarkerPrefix(fs))
    /\ [][ deleted' = NoDeletion => Marked(fs) \subseteq Marked(fs') ]_vars

\* the columns the claim lists
DenyList ==
    { <<"Definition">>, <<"Ontology_Component">>, <<"Ontology_Process">>,
      <<"Ontology_Function">>, <<"Synonyms">>, <<"Obsolete_Probe_Id">>,
      <<"Probe_Sequence">> }

\* the positions of the fields of header that are not on the deny-list
KeptAt(header) == {i \in 1..Len(header) : header[i] \notin DenyList}

\* the number of positions of kept up to position i
Rank(kept, i) == Cardinality({j \in kept : j <= i})

\* the line out holds the fields of the line in at the kept positions, in
\* order, and nothing else
HoldsKept(out, in, kept) ==
    /\ Len(Fields(out)) = Cardinality(kept)
    /\ \A i \in kept : Fields(out)[Rank(kept, i)] = Fields(in)[i]

\* TrimProbes has visited the generated Probes table
Trimmed == body.stage = "Trim" /\ GeneratedProbes \in attempted

\* C11: the trimmed table of a Probes table is written without error; its
\* header is the header of the input without the deny-listed columns, the
\* others in their order; it has the rows of the input, each with the
\* values of the columns kept; with no deny-listed column in the input the
\* output is the input
C11_ColumnPruning ==
    Trimmed =>
        /\ body.result # "failed"
        /\ IsFile(fs, GeneratedProbes)
        /\ IsFile(fs, GeneratedTrimmed)
        /\ LET in == fs[GeneratedProbes].data
               out == fs[GeneratedTrimmed].data
               kept == KeptAt(Fields(in[1]))
           IN  /\ Len(out) = Len(in)
               /\ \A k \in 1..Len(in) : HoldsKept(out[k], in[k], kept)
               /\ kept = 1..Len(Fields(in[1])) => out = in

\* C11 witness: a Probes table of three columns and two rows, whose second
\* column is on the deny-list, was trimmed to two columns
C11_Witness ==
    /\ Trimmed
    /\ Len(fs[GeneratedProbes].data) = 3
    /\ KeptAt(Fields(fs[GeneratedProbes].data[1])) = {1, 3}
    /\ Len(Fields(fs[GeneratedTrimmed].data[3])) = 2

---------------------------------------------------------------------------
(***************************************************************************)
(* Properties of the parser (checked under SpecParse).                     *)
(***************************************************************************)

\* a raw line that is a section header
IsHeaderLine(raw) == LET s == Strip(raw) IN s # <<>> /\ s[1] = "["

\* the whitespace-stripped lines t[i], ..., t[last - 1], each followed by NL
RECURSIVE Collected(_, _, _)
Collected(t, i, last) ==
    IF i >= last THEN <<>>
    ELSE Strip(t[i]) \o <<NL>> \o Collected(t, i + 1, last)

\* C8: the buffer handed to read_csv for a section is exactly the stripped
\* lines strictly between the section's header line and the next header line
\* (or the end of input), in order, each followed by a newline; the line
\* ranges of the sections handed over do not overlap and start after a
\* header, so a line before the first header is in no section and no line is
\* in two
C8_SectionPartition ==
    /\ \A i \in 1..Len(handed) :
          LET h == handed[i]
          IN  /\ h.first \in 1..Len(text)
              /\ IsHeaderLine(text[h.first])
              /\ h.first < h.last
              /\ \A k \in (h.first + 1)..(h.last - 1) : ~IsHeaderLine(text[k])
              /\ \/ h.last = Len(text) + 1 /\ parser_pc # "reading"
                 \/ h.last <= Len(text) /\ IsHeaderLine(text[h.last])
              /\ h.buffer = Collected(text, h.first + 1, h.last)
    /\ \A i \in 1..(Len(handed) - 1) : handed[i].last <= handed[i + 1].first

\* C8 witness: a file with a non-blank line before its first header and a
\* section that runs from its header to the next header was parsed
C8_Witness ==
    /\ Len(text) >= 4
    /\ Strip(text[1]) # <<>>
    /\ Len(handed) >= 1
    /\ handed[1].first = 2
    /\ handed[1].last = 4
    /\ handed[1].buffer # <<NL>>

\* the index after the last line of the section whose header is line i
SectionEnd(t, i) ==
    IF \E k \in (i + 1)..Len(t) : IsHeaderLine(t[k])
    THEN CHOOSE k \in (i + 1)..Len(t) :
             IsHeaderLine(t[k]) /\ \A j \in (i + 1)..(k - 1) : ~IsHeaderLine(t[j])
    ELSE Len(t) + 1

\* line i is the header of a section with no line, or only blank lines
EmptySectionAt(t, i) ==
    /\ i \in 1..Len(t)
    /\ IsHeaderLine(t[i])
    /\ \A k \in (i + 1)..(SectionEnd(t, i) - 1) : Strip(t[k]) = <<>>

\* t without its empty sections (their headers and their blank lines)
RECURSIVE WithoutEmptySections(_, _)
WithoutEmptySections(t, k) ==
    IF k > Len(t) THEN <<>>
    ELSE (IF \E i \in 1..k : EmptySectionAt(t, i) /\ k < SectionEnd(t, i)
          THEN <<>> ELSE <<t[k]>>)
         \o WithoutEmptySections(t, k + 1)

\* C9: a section whose header is directly followed by another header or by
\* the end of input, or whose lines are all blank, stores no table and
\* raises no error, and the file parses to the same tables (or the same
\* error) as the file without that section
C9_EmptySectionDrop ==
    /\ \A i \in 1..Len(handed) :
          EmptySectionAt(text, handed[i].first) =>
              /\ handed[i].status = "EmptyDataError"
              /\ parser.raised = "none" \/ i < Len(handed)
    /\ parser_pc = "raised" =>
          /\ handed # <<>>
          /\ ~EmptySectionAt(text, handed[Len(handed)].first)
    /\ parser_pc \in {"saved", "raised"} =>
          LET r == ParseLines(ParserStart, WithoutEmptySections(text, 1))
          IN  /\ r.dfs = parser.dfs
              /\ r.raised = parser.raised

\* C9 witness: a file that starts with a header-only section was parsed to
\* the end and the table of the section after it saved
C9_Witness ==
    /\ parser_pc = "saved"
    /\ EmptySectionAt(text, 1)
    /\ SectionEnd(text, 1) = 2
    /\ DOMAIN written # {}

\* the non-blank stripped lines of text strictly between lines first and last
RowLines(first, last) ==
    SelectSeq([k \in 1..(last - first - 1) |-> Strip(text[first + k])],
              LAMBDA l : l # <<>>)

\* row holds the fields of line, in order, from its first field on
HoldsFields(row, line) ==
    LET fields == SplitOn(line, TAB)
    IN  Len(row) >= Len(fields) /\ SubSeq(row, 1, Len(fields)) = fields

\* C10: for the section named exactly "Heading" every buffered row is a data
\* row and the columns are positional; for every other section the first
\* buffered row is the header and the remaining rows are the data rows
C10_HeaderPolicy ==
    \A i \in 1..Len(handed) :
        LET h == handed[i]
            lines == RowLines(h.first, h.last)
        IN  h.status = "ok" =>
              IF h.section = <<"Heading">>
              THEN /\ Len(h.table.rows) = Len(lines)
                   /\ \A k \in 1..Len(lines) : HoldsFields(h.table.rows[k], lines[k])
                   /\ h.table.columns =
                        SubSeq(<< <<"0">>, <<"1">>, <<"2">>, <<"3">> >>,
                               1, Len(h.table.columns))
                   /\ h.table.leading = 0
              ELSE /\ h.table.columns = SplitOn(lines[1], TAB)
                   /\ Len(h.table.rows) = Len(lines) - 1
                   /\ \A k \in 1..(Len(lines) - 1) :
                         HoldsFields(h.table.rows[k], lines[k + 1])

\* C10 witness: a "Heading" section of two rows was parsed into a table
C10_Witness ==
    \E i \in 1..Len(handed) :
        /\ handed[i].section = <<"Heading">>
        /\ handed[i].status = "ok"
        /\ Len(handed[i].table.rows) = 2
        /\ Len(handed[i].table.columns) = 2

\* the last line read is a header that ends with a bracket, and the parser
\* has gone on
AtBracketedHeader ==
    /\ parser_pc = "reading"
    /\ text # <<>>
    /\ LET line == Strip(text[Len(text)])
       IN  /\ StartsWithBracket(line)
           /\ line[Len(line)] \in {"[", "]"}
           /\ Len(line) >= 2

\* C16: after a line that begins with '[' the section name is the line
\* without its first character and without its last bracket character, one
\* from each end, inner and repeated brackets kept
C16_SectionName ==
    AtBracketedHeader =>
        LET line == Strip(text[Len(text)])
        IN  parser.current_section = Section(SubSeq(line, 2, Len(line) - 1))

\* the table read_csv makes of the buffer handed over for a section
TableOf(h) ==
    ReadCsv(h.buffer, IF h.section = <<"Heading">> THEN "None" ELSE "infer").table

\* the index in text of the last header line of the section name
LastOccurrence(name) ==
    CHOOSE i \in 1..Len(text) :
        /\ IsHeaderLine(text[i]) /\ StripBrackets(Strip(text[i])) = name
        /\ \A j \in (i + 1)..Len(text) :
              ~(IsHeaderLine(text[j]) /\ StripBrackets(Strip(text[j])) = name)

\* C17 as stated: the table stored under a name after parsing is the one
\* built from the last header line of that name
C17_LastOccurrenceWins ==
    parser_pc = "saved" =>
        \A name \in DOMAIN parser.dfs :
            \E k \in 1..Len(handed) :
                /\ handed[k].first = LastOccurrence(name)
                /\ handed[k].status = "ok"
                /\ parser.dfs[name] = TableOf(handed[k])

\* the hand-overs of the section name that gave a table
Tabled(name) ==
    {k \in 1..Len(handed) : handed[k].section = name /\ handed[k].status = "ok"}

\* C17 amended: the table stored under a name after parsing, and saved as
\* <name>.tsv, is the one built from the last occurrence of the name that
\* gave a table; a name is stored exactly if an occurrence gave a table
C17_LastTableWins ==
    parser_pc = "saved" =>
        /\ \A k \in 1..Len(handed) :
              handed[k].status = "ok" => handed[k].section \in DOMAIN parser.dfs
        /\ \A name \in DOMAIN parser.dfs :
              /\ Tabled(name) # {}
              /\ LET last == CHOOSE k \in Tabled(name) :
                                \A j \in Tabled(name) : j <= k
                 IN  /\ parser.dfs[name] = TableOf(handed[last])
                     /\ written[TsvName(name)] = ToCsv(TableOf(handed[last]))

\* C17 witness: two occurrences of a name gave different tables, and the
\* table of the second is the one stored
C17_Witness ==
    /\ parser_pc = "saved"
    /\ \E j, k \in 1..Len(handed) :
          /\ j < k
          /\ handed[j].section = handed[k].section
          /\ handed[j].status = "ok"
          /\ handed[k].status = "ok"
          /\ TableOf(handed[j]) # TableOf(handed[k])
          /\ parser.dfs[handed[k].section] = TableOf(handed[k])

\* read_csv of the buffer handed over gives no data row: a table without
\* rows or EmptyDataError
ZeroDataRows(h) ==
    LET r == ReadCsv(h.buffer, "infer")
    IN  r.status \in {"ok", "EmptyDataError"} /\ r.table.rows = <<>>

\* C18: for every section not named "Heading" whose buffer parses to zero
\* data rows the warning is logged and no error raised, and a section all of
\* whose occurrences are such has no table stored and no <section>.tsv written
C18_ZeroRowSectionDropped ==
    /\ \A i \in 1..Len(handed) :
          (handed[i].section # <<"Heading">> /\ ZeroDataRows(handed[i])) =>
              /\ handed[i].status = "EmptyDataError"
              /\ \E k \in 1..Len(warnings) : warnings[k] = handed[i].section
    /\ parser_pc = "saved" =>
          \A name \in DOMAIN parser.dfs \ {<<"Heading">>} :
              \E i \in 1..Len(handed) :
                  handed[i].section = name /\ ~ZeroDataRows(handed[i])

============================================================================
